---- MODULE Spec2Model ----
(***************************************************************************)
(* Model of notifier.py: a poll / evaluate / notify loop.                  *)
(*                                                                         *)
(* A Python str is a sequence of one-character strings.  None and the      *)
(* empty str are both falsy in every test the program makes on an optional *)
(* argument, so an absent optional argument is the empty sequence.         *)
(***************************************************************************)
EXTENDS Integers, Sequences, FiniteSets, TLC

\* ------------------------------------------------------------------------
\* Characters and str methods
\* ------------------------------------------------------------------------

LowerLetters ==
    <<"a","b","c","d","e","f","g","h","i","j","k","l","m",
      "n","o","p","q","r","s","t","u","v","w","x","y","z">>

UpperLetters ==
    <<"A","B","C","D","E","F","G","H","I","J","K","L","M",
      "N","O","P","Q","R","S","T","U","V","W","X","Y","Z">>

Digits == {"0","1","2","3","4","5","6","7","8","9"}

Range(s) == {s[i] : i \in DOMAIN s}

\* str.upper on one character
ToUpper(c) ==
    IF c \in Range(LowerLetters)
    THEN UpperLetters[CHOOSE i \in DOMAIN LowerLetters : LowerLetters[i] = c]
    ELSE c

\* str.upper
upper(s) == [i \in DOMAIN s |-> ToUpper(s[i])]

\* the characters str.strip removes
IsSpace(c) == c \in {" ", "\t", "\n", "\r", "\f"}

\* str.strip
strip(s) ==
    IF \A i \in DOMAIN s : IsSpace(s[i])
    THEN <<>>
    ELSE LET first == CHOOSE i \in DOMAIN s :
                        ~IsSpace(s[i]) /\ \A j \in 1..(i - 1) : IsSpace(s[j])
             last  == CHOOSE i \in DOMAIN s :
                        ~IsSpace(s[i]) /\ \A j \in (i + 1)..Len(s) : IsSpace(s[j])
         IN  SubSeq(s, first, last)

\* bool(x) of a str or a list
Truthy(s) == s # <<>>

\* old occurs in s starting at index i (1-based)
StartsAt(old, s, i) ==
    /\ i >= 1
    /\ i + Len(old) - 1 <= Len(s)
    /\ \A k \in DOMAIN old : s[i + k - 1] = old[k]

\* `old in s` for two strs
Contains(old, s) == \E i \in 1..(Len(s) + 1) : StartsAt(old, s, i)

\* str.replace(old, new): every non-overlapping occurrence, left to right
RECURSIVE ReplaceFrom(_, _, _, _)
ReplaceFrom(s, old, new, i) ==
    IF i > Len(s) THEN <<>>
    ELSE IF StartsAt(old, s, i)
         THEN new \o ReplaceFrom(s, old, new, i + Len(old))
         ELSE <<s[i]>> \o ReplaceFrom(s, old, new, i + 1)

replace(s, old, new) == ReplaceFrom(s, old, new, 1)

\* sep.join(parts)
RECURSIVE join(_, _)
join(sep, parts) ==
    IF parts = <<>> THEN <<>>
    ELSE IF Len(parts) = 1 THEN parts[1]
    ELSE parts[1] \o sep \o join(sep, Tail(parts))

\* ------------------------------------------------------------------------
\* The re module, for the patterns the program builds and a small pattern
\* language for --regex: literals, ".", a leading "^" and a postfix "+"
\* ------------------------------------------------------------------------

\* \w
IsWordChar(c) ==
    c \in Range(LowerLetters) \cup Range(UpperLetters) \cup Digits \cup {"_"}

\* \b between s[i-1] and s[i]
WordBoundary(s, i) ==
    LET before == i - 1 >= 1 /\ i - 1 <= Len(s) /\ IsWordChar(s[i - 1])
        after  == i >= 1 /\ i <= Len(s) /\ IsWordChar(s[i])
    IN  before # after

\* one literal character against one character of the text
CharEq(p, c, ignorecase) ==
    IF ignorecase THEN ToUpper(p) = ToUpper(c) ELSE p = c

\* a literal (re.escape'd) string at index i
LiteralAt(lit, s, i, ignorecase) ==
    /\ i >= 1
    /\ i + Len(lit) - 1 <= Len(s)
    /\ \A k \in DOMAIN lit : CharEq(lit[k], s[i + k - 1], ignorecase)

\* \b<lit>\b at index i
WordAt(lit, s, i, ignorecase) ==
    /\ WordBoundary(s, i)
    /\ LiteralAt(lit, s, i, ignorecase)
    /\ WordBoundary(s, i + Len(lit))

\* re.search(r"\b<lit>\b", s, flags)
SearchWord(lit, s, ignorecase) ==
    \E i \in 1..(Len(s) + 1) : WordAt(lit, s, i, ignorecase)

\* "." : any character, a newline only under re.DOTALL
DotMatches(c, dotall) == dotall \/ c # "\n"

\* re.search(r"\b<lit>\b.*?<marker>", s, flags)
SearchWordThenMarker(lit, marker, s, ignorecase, dotall) ==
    \E i \in 1..(Len(s) + 1) :
        /\ WordAt(lit, s, i, ignorecase)
        /\ \E j \in (i + Len(lit))..(Len(s) + 1) :
              /\ \A k \in (i + Len(lit))..(j - 1) : DotMatches(s[k], dotall)
              /\ LiteralAt(marker, s, j, ignorecase)

\* one pattern atom against one character, no flags
AtomMatches(a, c) == IF a = "." THEN DotMatches(c, FALSE) ELSE a = c

\* pat[p..] matches the text from index t on
RECURSIVE MatchFrom(_, _, _, _)
MatchFrom(pat, p, s, t) ==
    IF p > Len(pat) THEN TRUE
    ELSE IF pat[p] = "^" THEN t = 1 /\ MatchFrom(pat, p + 1, s, t)
    ELSE IF p < Len(pat) /\ pat[p + 1] = "+"
         THEN \E n \in 1..(Len(s) - t + 1) :
                 /\ \A k \in 0..(n - 1) : AtomMatches(pat[p], s[t + k])
                 /\ MatchFrom(pat, p + 2, s, t + n)
    ELSE t <= Len(s) /\ AtomMatches(pat[p], s[t]) /\ MatchFrom(pat, p + 1, s, t + 1)

\* re.search(pat, s) is not None
re_search(pat, s) == \E t \in 1..(Len(s) + 1) : MatchFrom(pat, 1, s, t)

\* the characters re.escape puts a backslash before
EscapeSpecial ==
    {"(", ")", "[", "]", "{", "}", "?", "*", "+", "-", "|", "^", "$",
     "\\", ".", "&", "~", "#", " ", "\t", "\n", "\r", "\f"}

\* re.escape
RECURSIVE re_escape(_)
re_escape(s) ==
    IF s = <<>> THEN <<>>
    ELSE (IF s[1] \in EscapeSpecial THEN <<"\\", s[1]>> ELSE <<s[1]>>)
         \o re_escape(Tail(s))

\* ------------------------------------------------------------------------
\* The functions of notifier.py
\* ------------------------------------------------------------------------

KeywordPrefix == <<"k","e","y","w","o","r","d",":">>

RegexPrefix == <<"r","e","g","e","x",":">>

\* keyword_hits comparing without regard to letter case
RECURSIVE keyword_hits_IgnoreCase(_, _)
keyword_hits_IgnoreCase(content_, keywords) ==
    IF keywords = <<>> THEN <<>>
    ELSE (IF Contains(upper(keywords[1]), upper(content_))
          THEN <<KeywordPrefix \o keywords[1]>> ELSE <<>>)
         \o keyword_hits_IgnoreCase(content_, Tail(keywords))

\* the first loop of matches: one hit per keyword that occurs in content
RECURSIVE keyword_hits(_, _)
keyword_hits(content_, keywords) ==
    IF keywords = <<>> THEN <<>>
    ELSE (IF Contains(keywords[1], content_)
          THEN <<KeywordPrefix \o keywords[1]>> ELSE <<>>)
         \o keyword_hits(content_, Tail(keywords))

\* the second loop of matches: one hit per regex that re.search finds
RECURSIVE regex_hits(_, _)
regex_hits(content_, regexes) ==
    IF regexes = <<>> THEN <<>>
    ELSE (IF re_search(regexes[1], content_)
          THEN <<RegexPrefix \o regexes[1]>> ELSE <<>>)
         \o regex_hits(content_, Tail(regexes))

\* matches(content, keywords, regexes) -> (bool(hits), hits)
matches(content_, keywords, regexes) ==
    LET hits_ == keyword_hits(content_, keywords) \o regex_hits(content_, regexes)
    IN  <<Truthy(hits_), hits_>>

\* cleaned = [region.strip().upper() for region in regions if region.strip()]
RECURSIVE cleaned_regions(_)
cleaned_regions(regions) ==
    IF regions = <<>> THEN <<>>
    ELSE (IF Truthy(strip(regions[1]))
          THEN <<upper(strip(regions[1]))>> ELSE <<>>)
         \o cleaned_regions(Tail(regions))

\* the elements of a list, each through re.escape
RECURSIVE escape_each(_)
escape_each(parts) ==
    IF parts = <<>> THEN <<>>
    ELSE <<re_escape(parts[1])>> \o escape_each(Tail(parts))

\* build_region_regex(regions): the pattern text, or None (the empty sequence)
build_region_regex(regions) ==
    LET cleaned == cleaned_regions(regions)
    IN  IF ~Truthy(cleaned) THEN <<>>
        ELSE <<"\\","b","(","?",":">>
             \o join(<<"|">>, escape_each(cleaned))
             \o <<")","\\","b">>

\* re.search(region_regex, content) is not None, for the pattern
\* build_region_regex builds: \b(?:R1|R2|...)\b, searched with no flags
search_region_regex(regions, content_) ==
    \E k \in DOMAIN cleaned_regions(regions) :
        SearchWord(cleaned_regions(regions)[k], content_, FALSE)

\* search_unavailable without re.DOTALL: the marker is looked for on the
\* token's own line only
search_unavailable_SameLine(region_token, unavailable_text, content_) ==
    SearchWordThenMarker(region_token, unavailable_text, content_, TRUE, FALSE)

\* re.search(unavailable_pattern, content, re.IGNORECASE | re.DOTALL)
search_unavailable(region_token, unavailable_text, content_) ==
    SearchWordThenMarker(region_token, unavailable_text, content_, TRUE, TRUE)

\* re.search(rf"\b{region_pattern}\b", content, re.IGNORECASE)
search_region_token(region_token, content_) ==
    SearchWord(region_token, content_, TRUE)

\* the loop of region_is_available over the region list
RECURSIVE available_list(_, _, _)
available_list(content_, regions, unavailable_text) ==
    IF regions = <<>> THEN <<>>
    ELSE LET region_token == upper(strip(regions[1]))
             rest == available_list(content_, Tail(regions), unavailable_text)
         IN  IF ~Truthy(region_token) THEN rest
             ELSE IF search_unavailable(region_token, unavailable_text, content_)
                  THEN rest
             ELSE IF search_region_token(region_token, content_)
                  THEN <<region_token>> \o rest
             ELSE rest

\* region_is_available(content, regions, unavailable_text)
\*   -> (bool(available), available)
region_is_available(content_, regions, unavailable_text) ==
    LET available == available_list(content_, regions, unavailable_text)
    IN  <<Truthy(available), available>>

Placeholder == <<"{","r","e","g","i","o","n","s","}">>

AvailableLine ==
    <<"\n","A","v","a","i","l","a","b","l","e"," ","r","e","g","i","o","n","s",":"," ">>

CommaSpace == <<",", " ">>

\* format_region_message(message, regions)
format_region_message(message_, regions) ==
    IF ~Truthy(regions) THEN message_
    ELSE LET region_text == join(CommaSpace, regions)
         IN  IF Contains(Placeholder, message_)
             THEN replace(message_, Placeholder, region_text)
             ELSE message_ \o AvailableLine \o region_text

\* ------------------------------------------------------------------------
\* Bounds and inputs
\* ------------------------------------------------------------------------

\* fetches per run
MaxPolls == 3

\* parser default of --interval
DefaultInterval == 25

\* seconds in an hour, less one: the longest wait of align_to_next_hour
MaxAlignSeconds == 3599

s_ready == <<"r","e","a","d","y">>
s_full  == <<"f","u","l","l">>
s_SG    == <<"S","G">>
s_sg    == <<"s","g">>
s_in    == <<" ","i","n"," ">>
s_blank == <<" ">>
s_brace == <<"{">>
s_up    == <<"u","p">>
s_upreg == <<"u","p"," ","{","r","e","g","i","o","n","s","}">>
s_twice == <<"{","r","e","g","i","o","n","s","}","r","e","g","i","o","n","s","}">>
s_regex == <<"^","S",".","+","y">>
s_run   == <<"r","u","n">>
s_token == <<"t","o","k">>
s_chat  == <<"4","2">>
s_json  == <<"{","}">>
s_badjson == <<"{">>
s_number == <<"1">>

\* response bodies the fetch may return
Texts ==
    { <<>>,
      <<"S","G"," ","r","e","a","d","y">>,
      <<"s","g"," ","r","e","a","d","y">>,
      <<"S","G"," ","f","u","l","l","\n","I","N"," ","r","e","a","d","y">> ,
      <<"r","e","a","d","y","{","x">> }

\* the parsed arguments every configuration family starts from
BaseArgs ==
    [ keyword                 |-> <<s_ready>>,
      regex                   |-> <<>>,
      region                  |-> <<s_SG>>,
      region_available        |-> TRUE,
      region_unavailable_text |-> s_full,
      interval                |-> DefaultInterval,
      headers                 |-> <<>>,
      command                 |-> <<>>,
      telegram_token          |-> <<>>,
      telegram_chat_id        |-> <<>>,
      telegram_message        |-> s_up,
      include_matches         |-> FALSE,
      align_hour              |-> FALSE,
      once                    |-> FALSE ]

\* a second value of --interval
LongInterval == 60

\* scheduling: which actions are configured, single-shot, alignment, interval
SchedArgs ==
    { [BaseArgs EXCEPT !.once = o, !.command = c, !.telegram_token = t,
                       !.telegram_chat_id = i, !.align_hour = a, !.interval = n] :
        o \in BOOLEAN, c \in {<<>>, s_run}, t \in {<<>>, s_token},
        i \in {<<>>, s_chat}, a \in BOOLEAN,
        n \in {DefaultInterval, LongInterval} }

\* --headers: well-formed and malformed JSON
HeaderArgs ==
    { [BaseArgs EXCEPT !.headers = h, !.keyword = k] :
        h \in {s_json, s_badjson, s_number}, k \in {<<>>, <<s_ready>>} }

\* the trigger decision: rules, region tokens, availability mode
DecideArgs ==
    { [BaseArgs EXCEPT !.keyword = k, !.regex = r, !.region = g,
                       !.region_available = v] :
        k \in {<<>>, <<s_ready>>, <<s_full, s_ready>>},
        r \in {<<>>, <<s_regex>>},
        g \in {<<>>, <<s_SG>>, <<s_in, s_sg>>, <<s_blank>>, <<s_brace>>},
        v \in BOOLEAN }

\* the message: template, availability mode, match details
MessageArgs ==
    { [BaseArgs EXCEPT !.telegram_token = s_token, !.telegram_chat_id = s_chat,
                       !.telegram_message = m, !.region = g,
                       !.region_available = v, !.include_matches = d] :
        m \in {s_up, s_upreg, s_twice},
        g \in {<<>>, <<s_in, s_sg>>, <<s_brace>>},
        v \in BOOLEAN, d \in BOOLEAN }

Configs == SchedArgs \cup HeaderArgs \cup DecideArgs \cup MessageArgs

\* ------------------------------------------------------------------------
\* State
\* ------------------------------------------------------------------------

VARIABLES
    args,               \* the parsed command line, read-only after parsing
    pc,                 \* where main is
    exit_code,          \* the process's exit status, -1 while it runs
    content,            \* main's local: the fetched text
    region_ok,          \* main's local
    available_regions,  \* main's local
    matched,            \* main's local
    hits,               \* main's local
    message,            \* main's local: the text handed to send_telegram_message
    iter,               \* what the current iteration of the loop has done
    fetches,            \* calls of fetch_url
    fetch_failures,     \* calls of fetch_url that raised
    failure_lines,      \* "Request failed" lines on stderr
    match_lines,        \* "Match detected." lines on stdout
    commands_run,       \* commands that were started
    messages_sent,      \* messages the messaging API accepted
    sleeps,             \* calls of time.sleep(args.interval)
    slept,              \* seconds spent in them
    align_waits,        \* calls of time.sleep in align_to_next_hour
    seen                \* history: what each evaluated poll read and decided

vars ==
    <<args, pc, exit_code, content, region_ok, available_regions, matched,
      hits, message, iter, fetches, fetch_failures, failure_lines, match_lines, commands_run,
      messages_sent, sleeps, slept, align_waits, seen>>

locals == <<content, region_ok, available_regions, matched, hits, message>>

counters ==
    <<fetches, fetch_failures, failure_lines, match_lines, commands_run, messages_sent,
      sleeps, slept, align_waits>>

Running == -1

\* an iteration that has done nothing yet
FreshIter ==
    [ fetch     |-> "none",    \* "none", "ok", "failed"
      evaluated |-> FALSE,     \* matches / the region tests were called
      trigger   |-> FALSE,     \* matched and region_ok
      command   |-> "none",    \* "none", "exit0", "nonzero", "cannot_start"
      telegram  |-> "none",    \* "none", "sent", "failed"
      slept     |-> FALSE ]

Init ==
    /\ args \in Configs
    /\ pc = "parse_args"
    /\ exit_code = Running
    /\ content = <<>>
    /\ region_ok = TRUE
    /\ available_regions = <<>>
    /\ matched = FALSE
    /\ hits = <<>>
    /\ message = <<>>
    /\ iter = FreshIter
    /\ fetches = 0
    /\ fetch_failures = 0
    /\ failure_lines = 0
    /\ match_lines = 0
    /\ commands_run = 0
    /\ messages_sent = 0
    /\ sleeps = 0
    /\ slept = 0
    /\ align_waits = 0
    /\ seen = {}

\* ------------------------------------------------------------------------
\* main: argument checks and start-up
\* ------------------------------------------------------------------------

\* exit status of `return 0`
ExitSuccess == 0

\* exit status of an uncaught exception
ExitTraceback == 1

\* exit status of parser.error
ExitUsage == 2

\* header texts json.loads accepts
WellFormedJson == {s_json, s_number}

\* header texts whose JSON value dict.update accepts
JsonObjects == {s_json}

\* load_headers raises ValueError
load_headers_raises(headers_json) ==
    Truthy(headers_json) /\ headers_json \notin WellFormedJson

\* headers.update(load_headers(...)) raises TypeError: the value is no mapping
headers_update_raises(headers_json) ==
    /\ Truthy(headers_json)
    /\ headers_json \in WellFormedJson
    /\ headers_json \notin JsonObjects

\* args.telegram_token and args.telegram_chat_id
telegram_configured(a) ==
    Truthy(a.telegram_token) /\ Truthy(a.telegram_chat_id)

\* telegram_partial with its second disjunct left out
telegram_partial_TokenOnly(a) ==
    Truthy(a.telegram_token) /\ ~Truthy(a.telegram_chat_id)

\* exactly one of the two messaging arguments is truthy
telegram_partial(a) ==
    \/ Truthy(a.telegram_token) /\ ~Truthy(a.telegram_chat_id)
    \/ Truthy(a.telegram_chat_id) /\ ~Truthy(a.telegram_token)

\* the process ends with this status
Exit(code) ==
    /\ pc' = "exited"
    /\ exit_code' = code

\* main up to the alignment test
ParseArgs ==
    /\ pc = "parse_args"
    /\ IF ~Truthy(args.keyword) /\ ~Truthy(args.regex) THEN Exit(ExitUsage)
       ELSE IF telegram_partial(args) THEN Exit(ExitUsage)
       ELSE IF load_headers_raises(args.headers) THEN Exit(ExitTraceback)
       ELSE IF headers_update_raises(args.headers) THEN Exit(ExitTraceback)
       ELSE /\ pc' = IF args.align_hour THEN "align" ELSE "fetch"
            /\ UNCHANGED exit_code
    /\ UNCHANGED <<args, seen, locals, iter, counters>>

\* the waits align_to_next_hour can compute: none, a second, a whole hour less one
AlignSeconds == {0, 1, MaxAlignSeconds}

\* align_to_next_hour
AlignToNextHour ==
    /\ pc = "align"
    /\ \E sleep_seconds \in AlignSeconds :
          align_waits' = IF sleep_seconds # 0 THEN align_waits + 1 ELSE align_waits
    /\ pc' = "fetch"
    /\ UNCHANGED <<args, seen, exit_code, locals, iter, fetches, fetch_failures,
                   failure_lines, match_lines, commands_run, messages_sent,
                   sleeps, slept>>

\* ------------------------------------------------------------------------
\* main: one iteration of the loop
\* ------------------------------------------------------------------------

\* fetch_url returns the decoded body
FetchOk ==
    /\ pc = "fetch"
    /\ fetches < MaxPolls
    /\ \E text \in Texts : content' = text
    /\ fetches' = fetches + 1
    /\ iter' = [FreshIter EXCEPT !.fetch = "ok"]
    /\ pc' = "evaluate"
    /\ UNCHANGED <<args, seen, exit_code, region_ok, available_regions, matched, hits,
                   message, fetch_failures, failure_lines, match_lines,
                   commands_run, messages_sent, sleeps, slept, align_waits>>

\* FetchFail with the except branch missing: the exception leaves main
FetchFail_Uncaught ==
    /\ pc = "fetch"
    /\ fetches < MaxPolls
    /\ fetches' = fetches + 1
    /\ fetch_failures' = fetch_failures + 1
    /\ iter' = [FreshIter EXCEPT !.fetch = "failed"]
    /\ Exit(ExitTraceback)
    /\ UNCHANGED <<args, seen, locals, failure_lines, match_lines, commands_run,
                   messages_sent, sleeps, slept, align_waits>>

\* fetch_url raises; the except branch prints one line
FetchFail ==
    /\ pc = "fetch"
    /\ fetches < MaxPolls
    /\ fetches' = fetches + 1
    /\ fetch_failures' = fetch_failures + 1
    /\ failure_lines' = failure_lines + 1
    /\ iter' = [FreshIter EXCEPT !.fetch = "failed"]
    /\ pc' = "sleep"
    /\ UNCHANGED <<args, seen, exit_code, locals, match_lines, commands_run,
                   messages_sent, sleeps, slept, align_waits>>

\* region_ok after the region_regex test
region_gate(a, content_) ==
    IF Truthy(build_region_regex(a.region))
    THEN search_region_regex(a.region, content_)
    ELSE TRUE

\* region_condition with `region_ok and` dropped from the availability test:
\* the availability result replaces the gate's even where the gate failed
region_condition_NoGate(a, content_) ==
    IF a.region_available /\ Truthy(a.region)
    THEN region_is_available(content_, a.region, a.region_unavailable_text)
    ELSE <<region_gate(a, content_), <<>>>>

\* region_condition that tests the cleaned list in place of args.region
region_condition_CleanedTest(a, content_) ==
    IF region_gate(a, content_) /\ a.region_available
          /\ Truthy(cleaned_regions(a.region))
    THEN region_is_available(content_, a.region, a.region_unavailable_text)
    ELSE <<region_gate(a, content_), <<>>>>

\* (region_ok, available_regions) after both region tests
region_condition(a, content_) ==
    IF region_gate(a, content_) /\ a.region_available /\ Truthy(a.region)
    THEN region_is_available(content_, a.region, a.region_unavailable_text)
    ELSE <<region_gate(a, content_), <<>>>>

\* `if matched and region_ok`
\* is_trigger that fires once only: a latch on the lines printed so far
is_trigger_Latched(matched_, region_ok_) ==
    matched_ /\ region_ok_ /\ match_lines = 0

\* is_trigger with "and" replaced by "or"
is_trigger_Either(matched_, region_ok_) == matched_ \/ region_ok_

is_trigger(matched_, region_ok_) == matched_ /\ region_ok_

\* the else branch up to the "Match detected." line
Evaluate ==
    /\ pc = "evaluate"
    /\ LET rc == region_condition(args, content)
           m  == matches(content, args.keyword, args.regex)
       IN  /\ region_ok' = rc[1]
           /\ available_regions' = rc[2]
           /\ matched' = m[1]
           /\ hits' = m[2]
           /\ seen' = seen \cup {<<content, is_trigger(m[1], rc[1]), m[2], rc[2]>>}
           /\ IF is_trigger(m[1], rc[1])
              THEN /\ match_lines' = match_lines + 1
                   /\ iter' = [iter EXCEPT !.evaluated = TRUE, !.trigger = TRUE]
                   /\ pc' = "dispatch_command"
              ELSE /\ UNCHANGED match_lines
                   /\ iter' = [iter EXCEPT !.evaluated = TRUE]
                   /\ pc' = "sleep"
    /\ UNCHANGED <<args, exit_code, content, message, fetches, fetch_failures,
                   failure_lines, commands_run, messages_sent, sleeps, slept, align_waits>>

\* what subprocess.run(shlex.split(command), check=False) can do
CommandOutcomes == {"exit0", "nonzero", "cannot_start"}

\* run_command raises (no such program, not executable, unbalanced quotes)
command_raises(outcome) == outcome = "cannot_start"

\* `if args.command: run_command(args.command)`
RunCommand ==
    /\ pc = "dispatch_command"
    /\ Truthy(args.command)
    /\ \E outcome \in CommandOutcomes :
          /\ iter' = [iter EXCEPT !.command = outcome]
          /\ IF command_raises(outcome)
             THEN Exit(ExitTraceback) /\ UNCHANGED commands_run
             ELSE /\ commands_run' = commands_run + 1
                  /\ pc' = "dispatch_telegram"
                  /\ UNCHANGED exit_code
    /\ UNCHANGED <<args, seen, locals, fetches, fetch_failures, failure_lines,
                   match_lines, messages_sent, sleeps, slept, align_waits>>

\* no --command
NoCommand ==
    /\ pc = "dispatch_command"
    /\ ~Truthy(args.command)
    /\ pc' = "dispatch_telegram"
    /\ UNCHANGED <<args, seen, exit_code, locals, iter, counters>>

RegionPrefix == <<"r","e","g","i","o","n",":">>

RegionAvailablePrefix ==
    <<"r","e","g","i","o","n","_","a","v","a","i","l","a","b","l","e",":">>

MatchesLine == <<"\n","M","a","t","c","h","e","s",":"," ">>

\* region_message substituting the placeholder whatever the list is
region_message_AlwaysSubstitute(a, available_) ==
    IF Contains(Placeholder, a.telegram_message)
    THEN replace(a.telegram_message, Placeholder, join(CommaSpace, available_))
    ELSE format_region_message(a.telegram_message, available_)

\* message after `if args.region_available and available_regions`
region_message(a, available_) ==
    IF a.region_available /\ Truthy(available_)
    THEN format_region_message(a.telegram_message, available_)
    ELSE a.telegram_message

\* match_details
match_details(a, hits_, available_) ==
    hits_
    \o (IF Truthy(build_region_regex(a.region))
        THEN <<RegionPrefix \o build_region_regex(a.region)>> ELSE <<>>)
    \o (IF Truthy(available_)
        THEN <<RegionAvailablePrefix \o join(CommaSpace, available_)>> ELSE <<>>)

\* the text handed to send_telegram_message
telegram_text(a, hits_, available_) ==
    IF a.include_matches
    THEN region_message(a, available_) \o MatchesLine
         \o join(CommaSpace, match_details(a, hits_, available_))
    ELSE region_message(a, available_)

\* what the POST of send_telegram_message can do
SendOutcomes == {"sent", "failed"}

\* send_telegram_message raises (urlopen: transport or HTTP error)
send_raises(outcome) == outcome = "failed"

\* `if args.telegram_token and args.telegram_chat_id: ... send_telegram_message`
SendTelegram ==
    /\ pc = "dispatch_telegram"
    /\ telegram_configured(args)
    /\ message' = telegram_text(args, hits, available_regions)
    /\ \E outcome \in SendOutcomes :
          /\ iter' = [iter EXCEPT !.telegram = outcome]
          /\ IF send_raises(outcome)
             THEN Exit(ExitTraceback) /\ UNCHANGED messages_sent
             ELSE /\ messages_sent' = messages_sent + 1
                  /\ pc' = "check_once"
                  /\ UNCHANGED exit_code
    /\ UNCHANGED <<args, seen, content, region_ok, available_regions, matched, hits,
                   fetches, fetch_failures, failure_lines, match_lines, commands_run, sleeps,
                   slept, align_waits>>

\* no messaging credentials
NoTelegram ==
    /\ pc = "dispatch_telegram"
    /\ ~telegram_configured(args)
    /\ pc' = "check_once"
    /\ UNCHANGED <<args, seen, exit_code, locals, iter, counters>>

\* CheckOnce that polls again at once, without the sleep of line 252
CheckOnce_NoSleep ==
    /\ pc = "check_once"
    /\ IF args.once THEN Exit(ExitSuccess)
       ELSE pc' = "fetch" /\ UNCHANGED exit_code
    /\ UNCHANGED <<args, seen, locals, iter, counters>>

\* `if args.once: return 0`
CheckOnce ==
    /\ pc = "check_once"
    /\ IF args.once THEN Exit(ExitSuccess)
       ELSE pc' = "sleep" /\ UNCHANGED exit_code
    /\ UNCHANGED <<args, seen, locals, iter, counters>>

\* Sleep that waits for the hour again before the next poll
Sleep_Realign ==
    /\ pc = "sleep"
    /\ sleeps' = sleeps + 1
    /\ slept' = slept + args.interval
    /\ iter' = [iter EXCEPT !.slept = TRUE]
    /\ pc' = IF args.align_hour THEN "align" ELSE "fetch"
    /\ UNCHANGED <<args, seen, exit_code, locals, fetches, fetch_failures,
                   failure_lines, match_lines, commands_run, messages_sent,
                   align_waits>>

\* time.sleep(args.interval), then the next iteration
Sleep ==
    /\ pc = "sleep"
    /\ sleeps' = sleeps + 1
    /\ slept' = slept + args.interval
    /\ iter' = [iter EXCEPT !.slept = TRUE]
    /\ pc' = "fetch"
    /\ UNCHANGED <<args, seen, exit_code, locals, fetches, fetch_failures,
                   failure_lines, match_lines, commands_run, messages_sent,
                   align_waits>>

Next ==
    \/ ParseArgs
    \/ AlignToNextHour
    \/ FetchOk
    \/ FetchFail
    \/ Evaluate
    \/ RunCommand
    \/ NoCommand
    \/ SendTelegram
    \/ NoTelegram
    \/ CheckOnce
    \/ Sleep

Spec == Init /\ [][Next]_vars

TypeOK ==
    /\ args \in Configs
    /\ pc \in {"parse_args", "align", "fetch", "evaluate", "dispatch_command",
               "dispatch_telegram", "check_once", "sleep", "exited"}
    /\ exit_code \in {Running, ExitSuccess, ExitTraceback, ExitUsage}
    /\ (pc = "exited") = (exit_code # Running)
    /\ region_ok \in BOOLEAN
    /\ matched \in BOOLEAN
    /\ fetches \in 0..MaxPolls

\* ------------------------------------------------------------------------
\* Fetch failures
\* ------------------------------------------------------------------------

\* an iteration whose fetch failed called no evaluator and no action, and
\* the process is still running: about to sleep, or past the sleep
C1_FailedPoll ==
    iter.fetch = "failed" =>
        /\ ~iter.evaluated
        /\ ~iter.trigger
        /\ iter.command = "none"
        /\ iter.telegram = "none"
        /\ exit_code = Running
        /\ pc \in {"sleep", "fetch"}
        /\ (pc = "sleep") = ~iter.slept

\* one failure line per failed fetch; k failures in a row from the start
\* give k lines and k full sleeps and leave the loop running
C1_Counts ==
    /\ failure_lines = fetch_failures
    /\ (fetch_failures = fetches /\ fetches > 0) =>
          /\ pc \in {"sleep", "fetch"}
          /\ sleeps = IF pc = "sleep" THEN fetches - 1 ELSE fetches
          /\ slept = sleeps * args.interval

\* the step of a failing fetch prints one line and does nothing else; the
\* step after it is the sleep of args.interval; the step after that a fetch
C1_Step ==
    /\ fetch_failures' # fetch_failures =>
          /\ failure_lines' = failure_lines + 1
          /\ pc' = "sleep"
          /\ UNCHANGED <<locals, match_lines, commands_run, messages_sent,
                         sleeps, slept>>
    /\ (iter.fetch = "failed" /\ pc = "sleep") =>
          /\ pc' = "fetch"
          /\ sleeps' = sleeps + 1
          /\ slept' = slept + args.interval
          /\ UNCHANGED <<locals, fetches, fetch_failures, failure_lines,
                         match_lines, commands_run, messages_sent>>
    /\ (iter.fetch = "failed" /\ pc = "fetch") =>
          /\ fetches' = fetches + 1
          /\ pc' \in {"evaluate", "sleep"}

\* C1: whenever the fetch of a poll fails, that poll calls neither the
\* Match/Region evaluators nor any notification action, exactly one failure
\* line is reported, and the loop sleeps args.interval and polls again; k
\* failures in a row give k lines and k sleeps and never end the loop.
C1_FetchFailureNotFatal ==
    [](C1_FailedPoll /\ C1_Counts) /\ [][C1_Step]_vars

\* two fetches failed in a row, two lines, two sleeps, the third fetch is due
C1_Witness ==
    /\ fetches = 2
    /\ fetch_failures = 2
    /\ failure_lines = 2
    /\ sleeps = 2
    /\ pc = "fetch"

\* ------------------------------------------------------------------------
\* Dispatch failures
\* ------------------------------------------------------------------------

\* C2: a messaging transport failure on a triggering poll does not abort
\* the loop or the rest of the iteration: after the failed send the
\* iteration completes, with exit code 0 in single-shot mode and with the
\* interval sleep otherwise.
C2_SendFailureNotFatal ==
    iter.telegram = "failed" =>
        \/ pc \in {"check_once", "sleep", "fetch"} /\ exit_code = Running
        \/ pc = "exited" /\ args.once /\ exit_code = ExitSuccess

\* C3: a command that cannot be started or exits non-zero never aborts the
\* loop and never keeps the message of the same poll from being sent.
C3_CommandFailureNotFatal ==
    iter.command \in {"nonzero", "cannot_start"} =>
        /\ pc = "exited" => (args.once /\ exit_code = ExitSuccess)
        /\ telegram_configured(args) =>
              (pc = "dispatch_telegram" \/ iter.telegram # "none")

\* the dispatch of the current iteration is over
DispatchOver == pc \notin {"dispatch_command", "dispatch_telegram", "check_once"}

\* C4: in single-shot mode a poll that does not trigger dispatches nothing
\* and the loop goes on; the first poll that triggers dispatches each
\* configured action once and the process then ends with exit code 0,
\* without another sleep or fetch.
C4_SingleShot ==
    (args.once /\ iter.evaluated) =>
        /\ ~iter.trigger =>
              /\ iter.command = "none"
              /\ iter.telegram = "none"
              /\ pc \in {"sleep", "fetch"}
              /\ match_lines = 0 /\ commands_run = 0 /\ messages_sent = 0
        /\ (iter.trigger /\ DispatchOver) =>
              /\ pc = "exited"
              /\ exit_code = ExitSuccess
              /\ ~iter.slept
              /\ match_lines = 1
              /\ commands_run = (IF Truthy(args.command) THEN 1 ELSE 0)
              /\ messages_sent = (IF telegram_configured(args) THEN 1 ELSE 0)

\* ------------------------------------------------------------------------
\* The trigger decision
\* ------------------------------------------------------------------------

\* a region filter is configured: some token is non-blank
FilterConfigured == Truthy(cleaned_regions(args.region))

\* the region-filter gate as main evaluates it on the fetched text
GatePasses == search_region_regex(args.region, content)

\* MatchOutcome of the fetched text
MatchOutcome == matches(content, args.keyword, args.regex)[1]

\* the Region Evaluator's boolean outcome on the fetched text
RegionOutcome ==
    region_is_available(content, args.region, args.region_unavailable_text)[1]

\* C5: the trigger decision is true iff (1) the region-filter gate passes
\* or no filter is configured, (2) in availability mode with a region token
\* configured the Region Evaluator's outcome is true, and (3) MatchOutcome
\* is true.  A failed gate or no available region means no trigger; with no
\* region token the decision is MatchOutcome.
C5_TriggerDecision ==
    iter.evaluated =>
        /\ iter.trigger =
              (/\ GatePasses \/ ~FilterConfigured
               /\ (args.region_available /\ Truthy(args.region)) => RegionOutcome
               /\ MatchOutcome)
        /\ (FilterConfigured /\ ~GatePasses) => ~iter.trigger
        /\ (args.region_available /\ Truthy(args.region)
              /\ available_list(content, args.region,
                                args.region_unavailable_text) = <<>>)
              => ~iter.trigger
        /\ ~Truthy(args.region) => (iter.trigger = MatchOutcome)
        /\ iter.trigger = (matched /\ region_ok)

\* a keyword matches, the gate fails on a lower-case mention that the
\* Region Evaluator would accept, and the poll does not trigger
C5_Witness ==
    /\ iter.evaluated
    /\ MatchOutcome
    /\ FilterConfigured
    /\ ~GatePasses
    /\ args.region_available
    /\ RegionOutcome
    /\ ~iter.trigger
    /\ pc = "sleep"

\* some token of the region list occurs in the text as a whole word, in any
\* letter case
TokenMentioned ==
    \E k \in DOMAIN cleaned_regions(args.region) :
        SearchWord(cleaned_regions(args.region)[k], content, TRUE)

\* C6: the region-filter gate passes iff the content contains at least one
\* configured region token as a whole word, compared case-insensitively.
C6_GateIgnoresCase ==
    (iter.evaluated /\ FilterConfigured) =>
        /\ region_gate(args, content) = TokenMentioned
        /\ ~args.region_available => (region_ok = TokenMentioned)

\* C7: with availability mode on and a region token configured, the trigger
\* decision is true iff MatchOutcome is true and the Region Evaluator
\* reports at least one available region.
C7_AvailabilityMode ==
    (iter.evaluated /\ args.region_available /\ Truthy(args.region)) =>
        iter.trigger = (MatchOutcome /\ RegionOutcome)

\* ------------------------------------------------------------------------
\* The Region Evaluator on its own: region_is_available applied to every
\* short text over a small alphabet, and to the documented examples
\* ------------------------------------------------------------------------

\* length of the enumerated texts
MaxTextLen == 4

RegionAlphabet == {"a", "A", "b", "-", "\n"}

\* every text over the alphabet up to the length bound
RegionTexts == UNION { [1..n -> RegionAlphabet] : n \in 0..MaxTextLen }

t_example1 ==
    <<"S","G",":"," ","f","u","l","l"," ","a","n","d"," ","u","n","a","v",
      "a","i","l","a","b","l","e","."," ","I","N",":"," ","r","e","a","d",
      "y">>

t_example2 ==
    <<"S","G"," ","r","e","a","d","y",","," ","I","N"," ","r","e","a","d",
      "y">>

t_example3 ==
    <<"n","o","t","h","i","n","g"," ","h","e","r","e">>

s_IN == <<"I","N">>

s_unavailable ==
    <<"f","u","l","l"," ","a","n","d"," ","u","n","a","v","a","i","l","a",
      "b","l","e">>

\* region lists: one token, two tokens out of alphabetical order, padded and
\* lower-case tokens, a blank token, a token that is no word, a repeated token
RegionLists ==
    { <<>>,
      << <<"a">> >>,
      << <<"b">>, <<" ", "A", "\n">> >>,
      << <<" ">>, <<"a", "b">> >>,
      << <<"-">>, <<"a">> >>,
      << <<"a">>, <<"A">> >> }

Markers == { <<"-">>, <<"B">>, <<"b", "-">>, <<>> }

RegionArgs ==
    { [BaseArgs EXCEPT !.region = g, !.region_unavailable_text = u] :
        g \in RegionLists, u \in Markers }

ExampleRegionArgs ==
    [BaseArgs EXCEPT !.region = <<s_SG, s_IN>>,
                     !.region_unavailable_text = s_unavailable]

InitRegion ==
    /\ \/ args \in RegionArgs /\ content \in RegionTexts
       \/ args = ExampleRegionArgs
          /\ content \in {t_example1, t_example2, t_example3}
    /\ pc = "call"
    /\ exit_code = Running
    /\ region_ok = TRUE
    /\ available_regions = <<>>
    /\ matched = FALSE
    /\ hits = <<>>
    /\ message = <<>>
    /\ iter = FreshIter
    /\ fetches = 0
    /\ fetch_failures = 0
    /\ failure_lines = 0
    /\ match_lines = 0
    /\ commands_run = 0
    /\ messages_sent = 0
    /\ sleeps = 0
    /\ slept = 0
    /\ align_waits = 0
    /\ seen = {}

\* region_ok, available_regions = region_is_available(content, args.region, ...)
CallRegionIsAvailable ==
    /\ pc = "call"
    /\ LET r == region_is_available(content, args.region,
                                    args.region_unavailable_text)
       IN  region_ok' = r[1] /\ available_regions' = r[2]
    /\ pc' = "returned"
    /\ UNCHANGED <<args, seen, exit_code, content, matched, hits, message, iter,
                   counters>>

NextRegion == CallRegionIsAvailable

SpecRegion == InitRegion /\ [][NextRegion]_vars

\* the configured tokens, trimmed and upper-cased, blank ones left out, in
\* configuration order
NormalizedTokens ==
    SelectSeq([k \in DOMAIN args.region |-> upper(strip(args.region[k]))],
              LAMBDA R : R # <<>>)

\* the position between content[p-1] and content[p] is a word boundary
C8_Boundary(p) ==
    LET left  == p > 1 /\ IsWordChar(content[p - 1])
        right == p <= Len(content) /\ IsWordChar(content[p])
    IN  left # right

\* R stands at content[i .. i+Len(R)-1] as a whole word, in any letter case
C8_WholeWordAt(R, i) ==
    /\ i + Len(R) - 1 <= Len(content)
    /\ upper(SubSeq(content, i, i + Len(R) - 1)) = upper(R)
    /\ C8_Boundary(i)
    /\ C8_Boundary(i + Len(R))

\* the marker text stands at content[j ..], in any letter case
C8_MarkerAt(j) ==
    LET u == args.region_unavailable_text
    IN  /\ j + Len(u) - 1 <= Len(content)
        /\ upper(SubSeq(content, j, j + Len(u) - 1)) = upper(u)

\* R occurs as a whole word and no whole-word occurrence of it is followed,
\* anywhere later in the text, by the marker
C8_Available(R) ==
    /\ \E i \in 1..Len(content) : C8_WholeWordAt(R, i)
    /\ ~\E i \in 1..Len(content) :
          /\ C8_WholeWordAt(R, i)
          /\ \E j \in (i + Len(R))..(Len(content) + 1) : C8_MarkerAt(j)

\* C8: a normalized token R is in the available list iff R occurs in the
\* text as a whole word (case-insensitive) and no whole-word occurrence of R
\* is followed anywhere later in the text, across newlines too, by the
\* marker; the list keeps the configuration's token order and the boolean
\* outcome is true iff the list is non-empty.
C8_RegionEvaluator ==
    pc = "returned" =>
        /\ \A k \in DOMAIN NormalizedTokens :
              (NormalizedTokens[k] \in Range(available_regions))
                  = C8_Available(NormalizedTokens[k])
        /\ available_regions = SelectSeq(NormalizedTokens, C8_Available)
        /\ region_ok = (available_regions # <<>>)
        /\ (content = t_example1) => (available_regions = <<s_IN>>)
        /\ (content = t_example2) => (available_regions = <<s_SG, s_IN>>)
        /\ (content = t_example3) => (available_regions = <<>> /\ ~region_ok)

\* the first documented example: SG is followed by the marker, IN is not
C8_WitnessExample ==
    /\ pc = "returned"
    /\ content = t_example1
    /\ available_regions = <<s_IN>>
    /\ region_ok

\* ------------------------------------------------------------------------
\* The Match Evaluator on its own: matches applied to every short text over
\* a small alphabet, and to the documented examples
\* ------------------------------------------------------------------------

MatchAlphabet == {"a", "A", "b", "\n"}

MatchTexts == UNION { [1..n -> MatchAlphabet] : n \in 0..MaxTextLen }

KeywordLists ==
    { <<>>,
      << <<"a">> >>,
      << <<"b">>, <<"a">> >>,
      << <<"A", "b">>, <<"a">>, <<"a">> >>,
      << <<>>, <<"b", "\n">> >> }

\* "^a", "b+", "a.b", ".+A"
RegexLists ==
    { <<>>,
      << <<"^", "a">> >>,
      << <<"a", ".", "b">>, <<"b", "+">> >>,
      << <<".", "+", "A">>, <<"^", "a">>, <<"b", "+">> >> }

\* parse_args rejects an empty keyword list with an empty regex list
MatchArgs ==
    { [BaseArgs EXCEPT !.keyword = k, !.regex = r] :
        <<k, r>> \in (KeywordLists \X RegexLists) \ {<<<<>>, <<>>>>} }

t_hello ==
    <<"h","e","l","l","o"," ","w","o","r","l","d">>

t_abc == <<"a","b","c">>

s_hello == <<"h","e","l","l","o">>

\* the three documented calls of the Match Evaluator
ExampleMatchCalls ==
    { <<t_hello, <<s_hello>>, <<>>>>,
      <<t_abc, << <<"x">> >>, << <<"^", "a">> >>>>,
      <<t_abc, << <<"x">> >>, << <<"z", "+">> >>>> }

InitMatch ==
    /\ \/ args \in MatchArgs /\ content \in MatchTexts
       \/ \E c \in ExampleMatchCalls :
             /\ content = c[1]
             /\ args = [BaseArgs EXCEPT !.keyword = c[2], !.regex = c[3]]
    /\ pc = "call"
    /\ exit_code = Running
    /\ region_ok = TRUE
    /\ available_regions = <<>>
    /\ matched = FALSE
    /\ hits = <<>>
    /\ message = <<>>
    /\ iter = FreshIter
    /\ fetches = 0
    /\ fetch_failures = 0
    /\ failure_lines = 0
    /\ match_lines = 0
    /\ commands_run = 0
    /\ messages_sent = 0
    /\ sleeps = 0
    /\ slept = 0
    /\ align_waits = 0
    /\ seen = {}

\* matched, hits = matches(content, args.keyword, args.regex)
CallMatches ==
    /\ pc = "call"
    /\ LET m == matches(content, args.keyword, args.regex)
       IN  matched' = m[1] /\ hits' = m[2]
    /\ pc' = "returned"
    /\ UNCHANGED <<args, seen, exit_code, content, region_ok, available_regions,
                   message, iter, counters>>

NextMatch == CallMatches

SpecMatch == InitMatch /\ [][NextMatch]_vars

\* k is a run of consecutive characters of the text, letter case and all
C9_Occurs(k) ==
    \E i \in 0..(Len(content) - Len(k)) : SubSeq(content, i + 1, i + Len(k)) = k

\* r matches somewhere in the text
C9_Matches(r) == re_search(r, content)

\* "keyword:" and "regex:"
C9_KeywordTag == <<"k","e","y","w","o","r","d",":">>

C9_RegexTag == <<"r","e","g","e","x",":">>

\* the firing keywords and then the firing regexes, each in configuration
\* order, tagged
C9_Fired ==
    LET fk == SelectSeq(args.keyword, C9_Occurs)
        fr == SelectSeq(args.regex, C9_Matches)
    IN  [i \in 1..(Len(fk) + Len(fr)) |->
            IF i <= Len(fk) THEN C9_KeywordTag \o fk[i]
            ELSE C9_RegexTag \o fr[i - Len(fk)]]

\* C9: the outcome is matched iff some keyword occurs in the text as a
\* case-sensitive literal substring or some regex matches somewhere in it;
\* the fired-rule list holds exactly the firing rules, keywords first and
\* then regexes, each in configuration order, as keyword:<literal> and
\* regex:<pattern>, and is empty iff the outcome is not matched.
C9_MatchEvaluator ==
    pc = "returned" =>
        /\ matched =
              (\/ \E k \in DOMAIN args.keyword : C9_Occurs(args.keyword[k])
               \/ \E k \in DOMAIN args.regex : C9_Matches(args.regex[k]))
        /\ hits = C9_Fired
        /\ (hits = <<>>) = ~matched

\* a text in which the first keyword occurs only in another letter case and
\* does not fire, the repeated keyword fires twice, the first regex does not
\* match and the other two fire, in order
C9_Witness ==
    /\ pc = "returned"
    /\ content = <<"a", "b", "b">>
    /\ args.keyword = << <<"A", "b">>, <<"a">>, <<"a">> >>
    /\ Len(args.regex) = 3
    /\ Len(hits) = 4
    /\ hits[1] = C9_KeywordTag \o <<"a">>
    /\ hits[3] = C9_RegexTag \o <<"^", "a">>
    /\ hits[4] = C9_RegexTag \o <<"b", "+">>
    /\ matched

\* ------------------------------------------------------------------------
\* The message body
\* ------------------------------------------------------------------------

\* the comma-joined available-region list of the current poll
C10_Joined == join(CommaSpace, available_regions)

\* the "Matches:" line of --include-matches, or nothing
C10_Details ==
    IF args.include_matches
    THEN MatchesLine
         \o join(CommaSpace, match_details(args, hits, available_regions))
    ELSE <<>>

\* the body as first stated: the placeholder is replaced whatever the list
C10_BodyAsStated ==
    IF Contains(Placeholder, args.telegram_message)
    THEN replace(args.telegram_message, Placeholder, C10_Joined)
    ELSE IF available_regions # <<>>
         THEN args.telegram_message \o AvailableLine \o C10_Joined
         ELSE args.telegram_message

\* C10 as stated: the placeholder, when the template has it, is replaced by
\* the comma-joined list whatever that list is, including empty; otherwise
\* the line "Available regions: <list>" is appended when regions exist; the
\* message never contains the unreplaced placeholder.
C10_PlaceholderAlwaysReplaced ==
    iter.telegram # "none" =>
        /\ message = C10_BodyAsStated \o C10_Details
        /\ ~Contains(Placeholder, message)

\* the body with the empty list leaving the template alone
C10_BodyAmended ==
    IF available_regions = <<>> THEN args.telegram_message
    ELSE IF Contains(Placeholder, args.telegram_message)
         THEN replace(args.telegram_message, Placeholder, C10_Joined)
         ELSE args.telegram_message \o AvailableLine \o C10_Joined

\* C10 amended: with a non-empty available-region list the placeholder, when
\* the template has it, is replaced at each occurrence by the comma-joined
\* list and otherwise the line "Available regions: <list>" is appended;
\* with an empty list the template is used unchanged, an unreplaced
\* placeholder included.
C10_MessageBody ==
    iter.telegram # "none" =>
        /\ message = C10_BodyAmended \o C10_Details
        /\ (available_regions = <<>> /\ ~args.include_matches) =>
              (message = args.telegram_message)
        /\ available_regions # <<>> => args.region_available

\* a message went out with the placeholder still in it: no region was
\* available to substitute
C10_Witness ==
    /\ iter.telegram = "sent"
    /\ Contains(Placeholder, args.telegram_message)
    /\ available_regions = <<>>
    /\ Contains(Placeholder, message)

\* ------------------------------------------------------------------------
\* Dispatch on a trigger
\* ------------------------------------------------------------------------

\* C11: on every poll whose trigger decision is true each configured
\* notification action is executed exactly once in that poll, the command
\* before the message; an action that is not configured is never executed;
\* one trigger-detection line is reported for that poll.
C11_EachActionOnce ==
    /\ (iter.trigger /\ DispatchOver) =>
          /\ Truthy(args.command) = (iter.command # "none")
          /\ telegram_configured(args) = (iter.telegram # "none")
    /\ iter.telegram # "none" =>
          (Truthy(args.command) = (iter.command # "none"))
    /\ ~Truthy(args.command) => (iter.command = "none" /\ commands_run = 0)
    /\ ~telegram_configured(args) =>
          (iter.telegram = "none" /\ messages_sent = 0)
    /\ iter.trigger => match_lines >= 1

\* ------------------------------------------------------------------------
\* Configuration validation
\* ------------------------------------------------------------------------

\* nothing of the loop has happened
NothingDone ==
    /\ fetches = 0 /\ fetch_failures = 0 /\ failure_lines = 0
    /\ match_lines = 0 /\ commands_run = 0 /\ messages_sent = 0
    /\ sleeps = 0 /\ slept = 0 /\ align_waits = 0
    /\ iter = FreshIter

\* no keyword and no regex
C12_NoRule == args.keyword = <<>> /\ args.regex = <<>>

\* exactly one of the messaging token and the messaging target is set
C12_OneCredential ==
    (args.telegram_token # <<>>) # (args.telegram_chat_id # <<>>)

\* a --headers text is given and is not the JSON text of an object
C12_BadHeaders == args.headers # <<>> /\ args.headers # s_json

\* the process ended before the loop, with this status, having done nothing
C12_FailsWith(code) ==
    /\ pc \in {"parse_args", "exited"}
    /\ pc = "exited" => (exit_code = code /\ exit_code # ExitSuccess)
    /\ NothingDone

\* the process got past the argument checks and never ends before a fetch
C12_EntersLoop ==
    /\ pc = "exited" => fetches > 0
    /\ (pc = "align" \/ (pc = "fetch" /\ fetches = 0)) => exit_code = Running

LoopEnded == pc = "exited" /\ fetches > 0

\* C13: the loop ends only in single-shot mode and only in an iteration that
\* triggered: with --once off no sequence of fetch results, decisions and
\* dispatch outcomes (dispatch failures included) ends it, and with --once on
\* no iteration that did not trigger ends it.
C13_StoppedOnlyAfterTrigger ==
    /\ ~args.once => ~LoopEnded
    /\ LoopEnded => (args.once /\ iter.evaluated /\ iter.trigger)

\* ------------------------------------------------------------------------
\* Dispatch only on a trigger
\* ------------------------------------------------------------------------

\* the current poll fetched a text and `matched and region_ok` is true of it
C14_Decision ==
    /\ iter.fetch = "ok"
    /\ iter.evaluated
    /\ matched
    /\ region_ok

\* an action of the current iteration has been attempted
C14_Acted == iter.command # "none" \/ iter.telegram # "none"

\* counts and positions: an action needs a true decision
C14_Counts ==
    /\ commands_run <= match_lines
    /\ messages_sent <= match_lines
    /\ match_lines <= fetches - fetch_failures
    /\ C14_Acted => C14_Decision
    /\ pc \in {"dispatch_command", "dispatch_telegram", "check_once"}
          => C14_Decision
    /\ iter.trigger => C14_Decision

\* each step: a count grows only in a poll that decided true
C14_Step ==
    /\ (commands_run' # commands_run \/ messages_sent' # messages_sent)
          => (C14_Decision /\ C14_Decision')
    /\ match_lines' # match_lines
          => (match_lines' = match_lines + 1 /\ ~iter.evaluated /\ C14_Decision')
    /\ iter'.command # iter.command => (iter.command = "none" \/ pc = "fetch")
    /\ iter'.telegram # iter.telegram => (iter.telegram = "none" \/ pc = "fetch")

\* C14: the dispatch runs only when the trigger decision is true: the number
\* of commands run and the number of messages sent are each at most the
\* number of polls that fetched a text and decided true, and no action runs
\* in an iteration whose decision is false.
C14_DispatchOnlyOnTrigger == [](C14_Counts) /\ [][C14_Step]_vars

\* a failed poll, a triggering poll with both actions done, then a poll that
\* does not trigger and does nothing
C14_Witness ==
    /\ fetches = 3
    /\ fetch_failures = 1
    /\ match_lines = 1
    /\ commands_run = 1
    /\ messages_sent = 1
    /\ iter.evaluated
    /\ ~C14_Decision
    /\ ~C14_Acted
    /\ pc = "sleep"

\* ------------------------------------------------------------------------
\* One sleep between polls
\* ------------------------------------------------------------------------

\* the dispatch of the current iteration has nothing left to do
C15_DispatchComplete ==
    iter.trigger =>
        /\ args.command # <<>> => iter.command # "none"
        /\ (args.telegram_token # <<>> /\ args.telegram_chat_id # <<>>)
              => iter.telegram # "none"

\* between fetches: as many sleeps as fetches before a fetch, one less inside
\* an iteration; every sleep lasts args.interval
C15_Counts ==
    /\ pc \in {"parse_args", "align"} => (fetches = 0 /\ sleeps = 0)
    /\ pc = "fetch" => sleeps = fetches
    /\ pc \in {"evaluate", "dispatch_command", "dispatch_telegram",
               "check_once", "sleep"} => sleeps = fetches - 1
    /\ LoopEnded => sleeps = fetches - 1
    /\ slept = sleeps * args.interval

\* each step: one fetch at a time, one sleep at a time, the sleep after the
\* dispatch
C15_Step ==
    /\ fetches' # fetches =>
          /\ fetches' = fetches + 1
          /\ sleeps = fetches
          /\ fetches > 0 => iter.slept
          /\ ~iter'.slept
    /\ sleeps' # sleeps =>
          /\ sleeps' = sleeps + 1
          /\ slept' = slept + args.interval
          /\ fetches' = fetches
          /\ iter.fetch # "none"
          /\ ~iter.slept
          /\ iter.fetch = "ok" => iter.evaluated
          /\ C15_DispatchComplete
          /\ commands_run' = commands_run
          /\ messages_sent' = messages_sent

\* C15: polls never overlap and are separated by one fixed sleep: each cycle
\* performs exactly one fetch, between two consecutive fetches exactly one
\* sleep of the configured interval occurs, that sleep begins only after the
\* earlier cycle's dispatch (if any) has completed, and the sleep is the same
\* after a fetch failure, a non-triggering poll and a triggering poll.
C15_OneSleepBetweenPolls == [](C15_Counts) /\ [][C15_Step]_vars

\* a failed poll, a non-triggering poll and a triggering poll whose command
\* and message are done, about to sleep for the third time
C15_Witness ==
    /\ fetches = 3
    /\ fetch_failures = 1
    /\ match_lines = 1
    /\ sleeps = 2
    /\ slept = 2 * LongInterval
    /\ iter.trigger
    /\ iter.command = "nonzero"
    /\ iter.telegram = "sent"
    /\ pc = "sleep"

\* ------------------------------------------------------------------------
\* Polls do not depend on earlier polls
\* ------------------------------------------------------------------------

\* all evaluated polls that read the same text decided alike, with the same
\* fired rules in the same order and the same available regions; the
\* current poll is one of them
C16_SameTextSameResult ==
    /\ \A r1 \in seen : \A r2 \in seen : r1[1] = r2[1] => r1 = r2
    /\ iter.evaluated =>
          <<content, iter.trigger, hits, available_regions>> \in seen

\* C16: the trigger decision, the fired-rule list and the available-region
\* list of a poll depend only on that poll's fetched text and the read-only
\* configuration: two polls anywhere in a run, after any history of fetch
\* failures, non-triggers and triggers, that fetch the same text yield the
\* same decision and the same fired-rule ordering.
C16_PollsIndependent == [](C16_SameTextSameResult) /\ [][args' = args]_vars

\* three polls, the first one failed, the other two read the same text and
\* both triggered, with a fired rule and an available region
C16_Witness ==
    /\ fetches = 3
    /\ fetch_failures = 1
    /\ match_lines = 2
    /\ Cardinality(seen) = 1
    /\ iter.trigger
    /\ hits # <<>>
    /\ available_regions # <<>>

\* ------------------------------------------------------------------------
\* Hour alignment
\* ------------------------------------------------------------------------

\* the alignment is where it may be: with --align-hour, before the first
\* fetch, once
C17_Aligning ==
    /\ align_waits <= 1
    /\ pc = "align" => (args.align_hour /\ fetches = 0 /\ align_waits = 0
                          /\ sleeps = 0 /\ iter = FreshIter)
    /\ ~args.align_hour => (pc # "align" /\ align_waits = 0)
    /\ fetches = 0 => (sleeps = 0 /\ slept = 0)

\* each step: alignment is entered from the argument checks only, and the
\* hour wait happens there only
C17_Step ==
    /\ (pc' = "align" /\ pc # "align") => (pc = "parse_args" /\ args.align_hour)
    /\ align_waits' # align_waits =>
          (pc = "align" /\ pc' = "fetch" /\ align_waits' = 1 /\ fetches = 0)
    /\ (pc = "parse_args" /\ pc' # "exited") =>
          pc' = (IF args.align_hour THEN "align" ELSE "fetch")
    /\ fetches > 0 => pc' # "align"

\* C17: the alignment state is entered at most once per run, only when the
\* hour-alignment flag is set, and strictly before the first fetch; once the
\* first poll has started there is no further wait for an hour boundary, and
\* with the flag off the first fetch happens with no preceding wait.
C17_AlignOnceBeforeFirstFetch == [](C17_Aligning) /\ [][C17_Step]_vars

\* an aligned run in its second poll, after one hour wait and one sleep
C17_Witness ==
    /\ args.align_hour
    /\ align_waits = 1
    /\ fetches = 2
    /\ sleeps = 1
    /\ pc = "evaluate"

\* ------------------------------------------------------------------------
\* No latch between polls
\* ------------------------------------------------------------------------

\* C18: with --once off the notification is not latched: every poll whose
\* decision is true dispatches again, so after n triggering polls each
\* configured action has been executed n times, and a triggering poll is
\* followed by the normal sleep and a further poll.
C18_NotLatched ==
    ~args.once =>
        /\ DispatchOver =>
              /\ args.command # <<>> => commands_run = match_lines
              /\ (args.telegram_token # <<>> /\ args.telegram_chat_id # <<>>)
                    => messages_sent = match_lines
        /\ iter.trigger => pc # "exited"
        /\ (iter.trigger /\ pc = "fetch") => iter.slept

\* ------------------------------------------------------------------------
\* A region list of blanks
\* ------------------------------------------------------------------------

\* --region was given and every token is blank after trimming
C19_AllBlank ==
    /\ args.region # <<>>
    /\ \A k \in DOMAIN args.region : strip(args.region[k]) = <<>>

\* C19: with availability mode on and a non-empty region list whose tokens
\* are all blank after trimming no poll ever triggers, whatever the fetched
\* text and the keywords and regexes; with availability mode off the same
\* list imposes no gate and the decision equals MatchOutcome.
C19_BlankRegionList ==
    C19_AllBlank =>
        IF args.region_available
        THEN /\ ~iter.trigger
             /\ match_lines = 0
             /\ pc \notin {"dispatch_command", "dispatch_telegram", "check_once"}
             /\ iter.evaluated => (~region_ok /\ available_regions = <<>>)
        ELSE iter.evaluated => (region_ok /\ iter.trigger = MatchOutcome)

\* a keyword matched in availability mode with a blank region list, and the
\* poll did not trigger
C19_Witness ==
    /\ C19_AllBlank
    /\ args.region_available
    /\ iter.evaluated
    /\ MatchOutcome
    /\ ~iter.trigger
    /\ pc = "sleep"

\* the same list with availability mode off: the matching poll triggered
C19_WitnessNoGate ==
    /\ C19_AllBlank
    /\ ~args.region_available
    /\ iter.evaluated
    /\ MatchOutcome
    /\ iter.trigger

====
